---- MODULE Spec2Model ----
(***************************************************************************)
(* Model of tools/splat_to_atlas.py: SplatAtlasGenerator and main.         *)
(*                                                                         *)
(* One run of main is modelled: load_ply_advanced, then export_assets,     *)
(* whose stages (atlas generation, atlas files, octree, scene.splat,       *)
(* metadata.json) follow one another in program order.                     *)
(*                                                                         *)
(* Numbers.  Coordinates are floats in the program.  Here a position is a  *)
(* triple of integers and every bound of the octree is an integer multiple *)
(* of 1/Unit, where Unit is chosen so that the 10% expansion of the        *)
(* bounding box and every halving down to MaxDepth are exact: the model    *)
(* is the program in exact arithmetic, rounding is not modelled.  Scales   *)
(* are integers in hundredths, so int(max(scale) * 100) is the integer     *)
(* itself.  Atlas coordinates x / atlas_size are kept as fractions         *)
(* <<numerator, denominator>>.                                             *)
(*                                                                         *)
(* Not modelled: rotation and covariance (_compute_covariance_from_scale_  *)
(* rot is float matrix arithmetic with no raising path; export writes it   *)
(* as six floats whatever its value) and the colour of atlas pixels.       *)
(***************************************************************************)
EXTENDS Integers, Sequences, FiniteSets, TLC

VARIABLES
    file,         \* the input file: first line, header, vertex records
    cfg,          \* generator.atlas_size, .atlas_layers, .max_octree_depth
    splats,       \* self.splats
    pc,           \* position of main
    error,        \* the exception that ended the run, or "none"
    atlases,      \* the layers returned by generate_texture_atlas
    octree_root,  \* root returned by _build_octree_recursive
    octree,       \* octree_array returned by build_octree_index, or None
    out           \* the output directory and the files written to it

vars == <<file, cfg, splats, pc, error, atlases, octree_root, octree, out>>

----------------------------------------------------------------------------
(* Bounds of the model *)

\* longest run of points at one position in an input file
MaxRun == 9
\* number of freely chosen points that follow the run
MaxTail == 2
\* largest --octree-depth
MaxDepth == 2
\* largest --atlas-layers
MaxLayers == 2
\* longest input file of the atlas inputs
MaxAtlasPoints == 4
\* longest input file of the header inputs
MaxHeaderPoints == 2
MaxMixedPoints == 2

(* Program constants *)

\* leaf capacity, `len(splat_indices) <= 8` and `splat_indices[:8]`
LeafCapacity == 8
\* number of child slots, `for octant in range(8)`
Octants == 8
\* smallest tile, `max(8, ...)`
MinTile == 8
\* largest tile, `min(64, ...)`
MaxTile == 64
\* 0x53504C54, 'SPLT'
SplatMagic == 1397771348

\* Bounds are multiples of 1/Unit: (min + max) / 2, size * 1.1, size / 2
\* and MaxDepth halvings of the box are then exact.
Unit == 20 * (2 ^ (MaxDepth + 1))

----------------------------------------------------------------------------
(* Python values *)

None == [is_none |-> TRUE]

\* a list held where None may be held instead
PyList(seq) == [list |-> seq]

\* dict.get(key, default)
Get(d, key, default) == IF key \in DOMAIN d THEN d[key] ELSE default

\* a dict with no keys
EmptyDict == [k \in {} |-> 0]

Max2(a, b) == IF a >= b THEN a ELSE b
Min2(a, b) == IF a <= b THEN a ELSE b

\* max(s['scale'])
MaxOf3(t) == Max2(t[1], Max2(t[2], t[3]))

\* a / b kept exact
Frac(a, b) == <<a, b>>

SeqsUpTo(S, n) == UNION {[1..k -> S] : k \in 0..n}

----------------------------------------------------------------------------
(* load_ply_advanced *)

\* _convert_vertex_to_splat raises KeyError inside its try block when a
\* colour key is present without its companions; every other lookup is a
\* .get with a default.
ConversionRaises(vertex_data) ==
    LET D == DOMAIN vertex_data
    IN  IF "red" \in D THEN ~({"green", "blue"} \subseteq D)
        ELSE IF "r" \in D THEN ~({"g", "b"} \subseteq D)
        ELSE FALSE

\* colour, in 255ths
ColorOf(vertex_data) ==
    IF "red" \in DOMAIN vertex_data
    THEN <<Frac(vertex_data["red"], 255), Frac(vertex_data["green"], 255),
           Frac(vertex_data["blue"], 255)>>
    ELSE IF "r" \in DOMAIN vertex_data
    THEN <<Frac(vertex_data["r"], 1), Frac(vertex_data["g"], 1),
           Frac(vertex_data["b"], 1)>>
    ELSE <<Frac(1, 1), Frac(1, 1), Frac(1, 1)>>

AlphaOf(vertex_data) ==
    LET a == Get(vertex_data, "alpha", Get(vertex_data, "opacity", 1))
    IN  IF a > 1 THEN Frac(a, 255) ELSE Frac(a, 1)

\* the splat dict, or None when the conversion raised
ConvertVertexToSplat(vertex_data) ==
    IF ConversionRaises(vertex_data) THEN None
    ELSE [pos   |-> <<Get(vertex_data, "x", 0), Get(vertex_data, "y", 0),
                      Get(vertex_data, "z", 0)>>,
          color |-> ColorOf(vertex_data),
          alpha |-> AlphaOf(vertex_data),
          scale |-> <<Get(vertex_data, "scale_0", Get(vertex_data, "scale_x", 10)),
                      Get(vertex_data, "scale_1", Get(vertex_data, "scale_y", 10)),
                      Get(vertex_data, "scale_2", Get(vertex_data, "scale_z", 10))>>,
          atlas |-> EmptyDict]

\* as ReadVertices, with the conversion failure of a point ending the load
RECURSIVE ReadVerticesStrict(_, _, _)
ReadVerticesStrict(f, i, acc) ==
    IF i >= f.vertex_count THEN [splats |-> acc, error |-> "none"]
    ELSE IF f.props # {} /\ i >= Len(f.points)
    THEN [splats |-> acc, error |-> "struct.error"]
    ELSE LET vertex_data == IF f.props = {} THEN EmptyDict ELSE f.points[i + 1]
             splat == ConvertVertexToSplat(vertex_data)
         IN  IF splat = None THEN [splats |-> acc, error |-> "KeyError"]
             ELSE ReadVerticesStrict(f, i + 1, Append(acc, splat))

\* The loop `for i in range(vertex_count)`.  A record of the file is read
\* property by property; with no property in the header nothing is read and
\* vertex_data is empty; reading past the end of the file makes
\* struct.unpack raise outside any try block.
RECURSIVE ReadVertices(_, _, _)
ReadVertices(f, i, acc) ==
    IF i >= f.vertex_count THEN [splats |-> acc, error |-> "none"]
    ELSE IF f.props # {} /\ i >= Len(f.points)
    THEN [splats |-> acc, error |-> "struct.error"]
    ELSE LET vertex_data == IF f.props = {} THEN EmptyDict ELSE f.points[i + 1]
             splat == ConvertVertexToSplat(vertex_data)
         IN  ReadVertices(f, i + 1,
                          IF splat # None THEN Append(acc, splat) ELSE acc)

\* as LoadPly, without the test of the first line
LoadPlyAnyMagic ==
    /\ pc = "start"
    /\ LET r == ReadVertices(file, 0, splats)
       IN  /\ splats' = r.splats
           /\ error' = r.error
           /\ pc' = IF r.error = "none" THEN "loaded" ELSE "error"
    /\ UNCHANGED <<file, cfg, atlases, octree_root, octree, out>>

LoadPly ==
    /\ pc = "start"
    /\ IF file.first_line # "ply"
       THEN /\ pc' = "error"
            /\ error' = "ValueError"
            /\ UNCHANGED splats
       ELSE LET r == ReadVertices(file, 0, splats)
            IN  /\ splats' = r.splats
                /\ error' = r.error
                /\ pc' = IF r.error = "none" THEN "loaded" ELSE "error"
    /\ UNCHANGED <<file, cfg, atlases, octree_root, octree, out>>

----------------------------------------------------------------------------
(* generate_texture_atlas *)

\* np.zeros((atlas_size, atlas_size, 4)): the shape, and the tiles rendered
NewAtlas(atlas_size) == [size |-> atlas_size, tiles |-> <<>>]

\* sorted(self.splats, key=max scale, reverse=True): a stable sort, given
\* as the sequence of 1-based indices into self.splats.  The sorted list
\* holds the same dict objects as self.splats.
SortRank(S, j) ==
    Cardinality({k \in 1..Len(S) :
        \/ MaxOf3(S[k].scale) > MaxOf3(S[j].scale)
        \/ MaxOf3(S[k].scale) = MaxOf3(S[j].scale) /\ k < j})

SortedSplats(S) ==
    [r \in 1..Len(S) |-> CHOOSE j \in 1..Len(S) : SortRank(S, j) = r - 1]

\* max(8, min(64, int(max(splat['scale']) * 100)))
SplatSize(splat) == Max2(MinTile, Min2(MaxTile, MaxOf3(splat.scale)))

\* as GridX, without the wrap at the grid width
GridXUnwrapped(i, atlas_layers, grid_size) == i \div atlas_layers

\* (i // self.atlas_layers) % grid_size
GridX(i, atlas_layers, grid_size) == (i \div atlas_layers) % grid_size

\* as GridY, without the wrap at the grid width
GridYUnwrapped(i, atlas_layers, grid_size) == (i \div atlas_layers) \div grid_size

\* ((i // self.atlas_layers) // grid_size) % grid_size
GridY(i, atlas_layers, grid_size) == ((i \div atlas_layers) \div grid_size) % grid_size

\* _render_splat_to_atlas: size x size pixels from (x, y), clipped by
\* `atlas_x < self.atlas_size and atlas_y < self.atlas_size`
RenderSplatToAtlas(atlas, x, y, size) ==
    [atlas EXCEPT !.tiles =
        Append(@, [x |-> x, y |-> y,
                   w |-> Max2(0, Min2(size, atlas.size - x)),
                   h |-> Max2(0, Min2(size, atlas.size - y))])]

\* The packing loop `for i, splat in enumerate(sorted_splats)`; i counts
\* from 0.  `% grid_size` raises ZeroDivisionError when the tile is larger
\* than the atlas.
RECURSIVE PackSplats(_, _, _, _, _, _)
PackSplats(i, order, S, layers, packed_count, c) ==
    IF i >= Len(order)
    THEN [splats |-> S, atlases |-> layers, packed_count |-> packed_count,
          error |-> "none"]
    ELSE
    LET s == order[i + 1]
        layer == i % c.atlas_layers
        splat_size == SplatSize(S[s])
        grid_size == c.atlas_size \div splat_size
    IN  IF grid_size = 0
        THEN [splats |-> S, atlases |-> layers, packed_count |-> packed_count,
              error |-> "ZeroDivisionError"]
        ELSE
        LET grid_x == GridX(i, c.atlas_layers, grid_size)
            grid_y == GridY(i, c.atlas_layers, grid_size)
        IN  IF grid_y * splat_size + splat_size <= c.atlas_size
            THEN LET x == grid_x * splat_size
                     y == grid_y * splat_size
                 IN  PackSplats(i + 1, order,
                        [S EXCEPT ![s].atlas =
                            [atlas_layer |-> layer,
                             atlas_u |-> Frac(x, c.atlas_size),
                             atlas_v |-> Frac(y, c.atlas_size),
                             atlas_size |-> Frac(splat_size, c.atlas_size)]],
                        [layers EXCEPT ![layer + 1] =
                            RenderSplatToAtlas(@, x, y, splat_size)],
                        packed_count + 1, c)
            ELSE PackSplats(i + 1, order, S, layers, packed_count, c)

\* as GenerateTextureAtlas, sorting the splat list itself instead of a copy
GenerateTextureAtlasInPlace(S, c) ==
    LET order == SortedSplats(S)
    IN  PackSplats(0, [i \in 1..Len(S) |-> i], [i \in 1..Len(S) |-> S[order[i]]],
                   [l \in 1..c.atlas_layers |-> NewAtlas(c.atlas_size)], 0, c)

\* generate_texture_atlas: sorted copy, fresh layers, then the packing loop
GenerateTextureAtlas(S, c) ==
    PackSplats(0, SortedSplats(S), S,
               [l \in 1..c.atlas_layers |-> NewAtlas(c.atlas_size)], 0, c)

\* as ExportBegin, refusing an empty splat list before anything is created
ExportBeginRefusingEmpty ==
    /\ pc = "loaded"
    /\ IF splats = <<>>
       THEN /\ pc' = "error"
            /\ error' = "EmptyDatasetError"
            /\ UNCHANGED <<splats, atlases, out>>
       ELSE LET r == GenerateTextureAtlas(splats, cfg)
            IN  /\ splats' = r.splats
                /\ error' = r.error
                /\ IF r.error = "none"
                   THEN atlases' = r.atlases /\ pc' = "atlas"
                   ELSE atlases' = atlases /\ pc' = "error"
                /\ out' = [out EXCEPT !.dir = TRUE]
    /\ UNCHANGED <<file, cfg, octree_root, octree>>

\* export_assets, up to the return of generate_texture_atlas
ExportBegin ==
    /\ pc = "loaded"
    /\ LET r == GenerateTextureAtlas(splats, cfg)
       IN  /\ splats' = r.splats
           /\ error' = r.error
           /\ IF r.error = "none"
              THEN atlases' = r.atlases /\ pc' = "atlas"
              ELSE atlases' = atlases /\ pc' = "error"
    /\ out' = [out EXCEPT !.dir = TRUE]
    /\ UNCHANGED <<file, cfg, octree_root, octree>>

\* struct.calcsize of a format of 'B', 'I', 'i' and 'f' codes
RECURSIVE StructSize(_)
StructSize(fmt) ==
    IF fmt = <<>> THEN 0
    ELSE (IF Head(fmt) = "B" THEN 1 ELSE 4) + StructSize(Tail(fmt))

\* atlas_t{i}.raw: one pack('BBBB') for each y and x in range(atlas_size)
AtlasFile(atlas, atlas_size) ==
    [bytes |-> atlas_size * atlas_size * StructSize(<<"B", "B", "B", "B">>),
     tiles |-> atlas.tiles]

\* export_assets: `for i, atlas in enumerate(atlases)`
ExportAtlases ==
    /\ pc = "atlas"
    /\ out' = [out EXCEPT !.atlas =
                  [i \in 1..Len(atlases) |-> AtlasFile(atlases[i], cfg.atlas_size)]]
    /\ pc' = "octree"
    /\ UNCHANGED <<file, cfg, splats, error, atlases, octree_root, octree>>

----------------------------------------------------------------------------
(* build_octree_index *)

Repeat(p, n) == [i \in 1..n |-> p]

SetMin(S) == CHOOSE m \in S : \A e \in S : m <= e
SetMax(S) == CHOOSE m \in S : \A e \in S : m >= e

\* as IsLeafCase, with a list of exactly eight indices split further
IsLeafCaseBelowEight(splat_indices, depth, max_depth) ==
    depth >= max_depth \/ Len(splat_indices) < LeafCapacity

\* as IsLeafCase, with the depth limit reached one level later
IsLeafCaseOneDeeper(splat_indices, depth, max_depth) ==
    depth > max_depth \/ Len(splat_indices) <= LeafCapacity

\* `depth >= self.max_octree_depth or len(splat_indices) <= 8`
IsLeafCase(splat_indices, depth, max_depth) ==
    depth >= max_depth \/ Len(splat_indices) <= LeafCapacity

\* as LeafIndices, without the cut at eight
LeafIndicesUncut(splat_indices) == splat_indices

\* splat_indices[:8]
LeafIndices(splat_indices) ==
    SubSeq(splat_indices, 1, Min2(LeafCapacity, Len(splat_indices)))

\* `octant & 1`, `octant & 2`, `octant & 4` for axis 1, 2, 3
OctantBit(octant, axis) == (octant \div (2 ^ (axis - 1))) % 2 = 1

OctMin(octant, min_pos, center) ==
    [a \in 1..3 |-> IF OctantBit(octant, a) THEN center[a] ELSE min_pos[a]]

OctMax(octant, max_pos, center) ==
    [a \in 1..3 |-> IF OctantBit(octant, a) THEN max_pos[a] ELSE center[a]]

\* as InOctant, with the upper bound of the box left out
InOctantHalfOpen(pos, oct_min, oct_max) ==
    \A a \in 1..3 : pos[a] * Unit >= oct_min[a] /\ pos[a] * Unit < oct_max[a]

\* as InOctant, with both bounds of the box left out
InOctantOpen(pos, oct_min, oct_max) ==
    \A a \in 1..3 : pos[a] * Unit > oct_min[a] /\ pos[a] * Unit < oct_max[a]

\* pos[a] >= oct_min[a] and pos[a] <= oct_max[a] on the three axes
InOctant(pos, oct_min, oct_max) ==
    \A a \in 1..3 : pos[a] * Unit >= oct_min[a] /\ pos[a] * Unit <= oct_max[a]

\* the loop `for idx in splat_indices` that fills octant_splats
OctantSplats(S, splat_indices, oct_min, oct_max) ==
    SelectSeq(splat_indices, LAMBDA idx : InOctant(S[idx + 1].pos, oct_min, oct_max))

Bounds(min_pos, max_pos) ==
    <<min_pos[1], min_pos[2], min_pos[3], max_pos[1], max_pos[2], max_pos[3]>>

\* _build_octree_recursive; splat_indices are the program's 0-based indices
RECURSIVE BuildOctreeRecursive(_, _, _, _, _, _)
BuildOctreeRecursive(S, splat_indices, min_pos, max_pos, depth, max_depth) ==
    IF IsLeafCase(splat_indices, depth, max_depth)
    THEN [is_leaf |-> TRUE,
          splat_indices |-> LeafIndices(splat_indices),
          bounds |-> Bounds(min_pos, max_pos)]
    ELSE
    LET center == [a \in 1..3 |-> (min_pos[a] + max_pos[a]) \div 2]
        Child(octant) ==
            LET oct_min == OctMin(octant, min_pos, center)
                oct_max == OctMax(octant, max_pos, center)
                octant_splats == OctantSplats(S, splat_indices, oct_min, oct_max)
            IN  IF octant_splats # <<>>
                THEN BuildOctreeRecursive(S, octant_splats, oct_min, oct_max,
                                          depth + 1, max_depth)
                ELSE None
    IN  [is_leaf |-> FALSE,
         children |-> [o \in 1..Octants |-> Child(o - 1)],
         bounds |-> Bounds(min_pos, max_pos)]

\* _flatten_octree returns the index of the node it appended; array is the
\* list it appends to.  Indices are the program's 0-based indices.
RECURSIVE FlattenOctree(_, _)
RECURSIVE FlattenChildren(_, _, _, _)

\* as FlattenChildren, with the slot set to the length of the array after
\* the child was flattened
RECURSIVE FlattenChildrenPastChild(_, _, _, _)
FlattenChildrenPastChild(children, i, array, node_index) ==
    IF i > Len(children) THEN array
    ELSE
    LET child_index == IF children[i] # None
                       THEN FlattenOctree(children[i], array)
                       ELSE [array |-> array, index |-> -1]
        patched == [child_index.array EXCEPT
                       ![node_index + 1].child_offsets[i] =
                           IF children[i] # None THEN Len(child_index.array) ELSE -1]
    IN  IF Len(patched) >= 0
        THEN FlattenChildrenPastChild(children, i + 1, patched, node_index)
        ELSE patched

\* `for i, child in enumerate(node['children'])`, i counted from 1 here:
\* the slot of a child is set to the index its flattening returned, the
\* slot of an absent child to -1.  (Len(patched) >= 0 is true; it has the
\* array evaluated before the loop goes on.)
FlattenChildren(children, i, array, node_index) ==
    IF i > Len(children) THEN array
    ELSE
    LET child_index == IF children[i] # None
                       THEN FlattenOctree(children[i], array)
                       ELSE [array |-> array, index |-> -1]
        patched == [child_index.array EXCEPT
                       ![node_index + 1].child_offsets[i] = child_index.index]
    IN  IF Len(patched) >= 0
        THEN FlattenChildren(children, i + 1, patched, node_index)
        ELSE patched

FlattenOctree(node, array) ==
    IF node = None THEN [array |-> array, index |-> -1]
    ELSE
    LET node_index == Len(array)
    IN  IF node.is_leaf
        THEN [array |-> Append(array,
                 [type |-> "leaf",
                  splat_count |-> Len(node.splat_indices),
                  splat_indices |-> node.splat_indices \o
                      Repeat(0, LeafCapacity - Len(node.splat_indices)),
                  bounds |-> node.bounds]),
              index |-> node_index]
        ELSE [array |-> FlattenChildren(node.children, 1,
                 Append(array,
                    [type |-> "internal",
                     child_offsets |-> Repeat(0, Octants),
                     bounds |-> node.bounds]),
                 node_index),
              index |-> node_index]

\* the bounding box of all positions, expanded by 10% around its centre
RootBox(S) ==
    LET min_pos == [a \in 1..3 |-> SetMin({S[i].pos[a] : i \in 1..Len(S)}) * Unit]
        max_pos == [a \in 1..3 |-> SetMax({S[i].pos[a] : i \in 1..Len(S)}) * Unit]
        center == [a \in 1..3 |-> (min_pos[a] + max_pos[a]) \div 2]
        size == (SetMax({max_pos[a] - min_pos[a] : a \in 1..3}) * 11) \div 10
    IN  [min_pos |-> [a \in 1..3 |-> center[a] - size \div 2],
         max_pos |-> [a \in 1..3 |-> center[a] + size \div 2]]

\* build_octree_index: None for an empty list, else the root and the array
BuildOctreeIndex(S, max_depth) ==
    IF S = <<>> THEN [root |-> None, array |-> None]
    ELSE LET box == RootBox(S)
             root == BuildOctreeRecursive(S, [i \in 1..Len(S) |-> i - 1],
                                          box.min_pos, box.max_pos, 0, max_depth)
         IN  [root |-> root, array |-> PyList(FlattenOctree(root, <<>>).array)]

\* `if octree:`
Truthy(octree_array) == octree_array # None /\ octree_array.list # <<>>

\* one node record of octree.idx
OctreeNodeRecord(node) ==
    IF node.type = "leaf"
    THEN [flag |-> 1, count |-> node.splat_count, slots |-> node.splat_indices,
          bounds |-> node.bounds,
          bytes |-> StructSize(<<"I">>) + StructSize(<<"I">>)
                    + Len(node.splat_indices) * StructSize(<<"I">>)
                    + Len(node.bounds) * StructSize(<<"f">>)]
    ELSE [flag |-> 0, count |-> 0, slots |-> node.child_offsets,
          bounds |-> node.bounds,
          bytes |-> StructSize(<<"I">>) + StructSize(<<"I">>)
                    + Len(node.child_offsets) * StructSize(<<"i">>)
                    + Len(node.bounds) * StructSize(<<"f">>)]

\* the bytes written for records[lo..hi], summed by halves
RECURSIVE SumBytesOf(_, _, _)
SumBytesOf(records, lo, hi) ==
    IF lo > hi THEN 0
    ELSE IF lo = hi THEN records[lo].bytes
    ELSE SumBytesOf(records, lo, (lo + hi) \div 2)
         + SumBytesOf(records, (lo + hi) \div 2 + 1, hi)

SumBytes(records) == SumBytesOf(records, 1, Len(records))

\* octree.idx: node count, max depth, then the nodes
OctreeFile(octree_array, max_depth) ==
    LET nodes == [i \in 1..Len(octree_array.list) |->
                     OctreeNodeRecord(octree_array.list[i])]
    IN  [node_count |-> Len(octree_array.list),
         max_depth |-> max_depth,
         nodes |-> nodes,
         bytes |-> StructSize(<<"I">>) + StructSize(<<"I">>) + SumBytes(nodes)]

\* export_assets: build_octree_index, then octree.idx when the result is truthy
ExportOctree ==
    /\ pc = "octree"
    /\ LET r == BuildOctreeIndex(splats, cfg.max_octree_depth)
       IN  /\ octree_root' = r.root
           /\ octree' = r.array
           /\ out' = IF Truthy(r.array)
                     THEN [out EXCEPT !.octree =
                              <<OctreeFile(r.array, cfg.max_octree_depth)>>]
                     ELSE out
    /\ pc' = "splat"
    /\ UNCHANGED <<file, cfg, splats, error, atlases>>

----------------------------------------------------------------------------
(* scene.splat and metadata.json *)

\* as SplatRecordFormats, without the two padding writes
SplatRecordFormatsUnpadded ==
    << <<"f", "f", "f">>,
       <<"f", "f", "f", "f", "f", "f">>,
       <<"f", "f", "f", "f">>,
       <<"f", "f", "f", "f">> >>

\* the pack() calls of one splat record, in order
SplatRecordFormats ==
    << <<"f", "f", "f">>, <<"f">>,
       <<"f", "f", "f", "f", "f", "f">>, <<"f", "f">>,
       <<"f", "f", "f", "f">>,
       <<"f", "f", "f", "f">> >>

RECURSIVE SumSizes(_)
SumSizes(fmts) ==
    IF fmts = <<>> THEN 0 ELSE StructSize(Head(fmts)) + SumSizes(Tail(fmts))

\* one record of scene.splat
SplatRecord(splat) ==
    [pos |-> splat.pos,
     color |-> splat.color,
     alpha |-> splat.alpha,
     atlas_u |-> Get(splat.atlas, "atlas_u", Frac(0, 1)),
     atlas_v |-> Get(splat.atlas, "atlas_v", Frac(0, 1)),
     atlas_size |-> Get(splat.atlas, "atlas_size", Frac(0, 1)),
     atlas_layer |-> Get(splat.atlas, "atlas_layer", 0),
     bytes |-> SumSizes(SplatRecordFormats)]

\* scene.splat: splat count, magic, then the records
SplatFile(S) ==
    LET records == [i \in 1..Len(S) |-> SplatRecord(S[i])]
    IN  [count |-> Len(S),
         magic |-> SplatMagic,
         records |-> records,
         bytes |-> StructSize(<<"I">>) + StructSize(<<"I">>) + SumBytes(records)]

ExportSplats ==
    /\ pc = "splat"
    /\ out' = [out EXCEPT !.splat = <<SplatFile(splats)>>]
    /\ pc' = "metadata"
    /\ UNCHANGED <<file, cfg, splats, error, atlases, octree_root, octree>>

\* as Metadata, with the splat count written as the node count
MetadataNodesFromSplats(S, octree_array, c) ==
    [splat_count |-> Len(S),
     atlas_size |-> c.atlas_size,
     atlas_layers |-> c.atlas_layers,
     octree_nodes |-> Len(S),
     octree_depth |-> c.max_octree_depth]

Metadata(S, octree_array, c) ==
    [splat_count |-> Len(S),
     atlas_size |-> c.atlas_size,
     atlas_layers |-> c.atlas_layers,
     octree_nodes |-> IF Truthy(octree_array) THEN Len(octree_array.list) ELSE 0,
     octree_depth |-> c.max_octree_depth]

ExportMetadata ==
    /\ pc = "metadata"
    /\ out' = [out EXCEPT !.metadata = <<Metadata(splats, octree, cfg)>>]
    /\ pc' = "done"
    /\ UNCHANGED <<file, cfg, splats, error, atlases, octree_root, octree>>

----------------------------------------------------------------------------
(* Input files and command lines *)

PosCandidates == {<<0, 0, 0>>, <<2, 2, 2>>, <<1, 1, 0>>}

\* hundredths: tiles of 10, 8, 40 and 64 pixels
ScaleCandidates == {<<10, 10, 10>>, <<5, 3, 2>>, <<40, 30, 20>>, <<100, 20, 20>>}

AtlasSizes == {4, 16, 100}

GeomProps == {"x", "y", "z", "scale_0", "scale_1", "scale_2"}

HeaderProps ==
    { GeomProps,
      {"x", "y", "z", "red", "green", "blue", "alpha"},
      {"x", "y", "z", "red"},
      {"x", "y", "z", "r", "g"},
      {} }

\* one vertex record, decoded
Vertex(props, pos, scale) ==
    [k \in props |->
        CASE k = "x" -> pos[1]
          [] k = "y" -> pos[2]
          [] k = "z" -> pos[3]
          [] k = "scale_0" -> scale[1]
          [] k = "scale_1" -> scale[2]
          [] k = "scale_2" -> scale[3]
          [] OTHER -> 255]

\* a run of points at one position, then a few free points
OctreePointLists ==
    { Repeat(p, n) \o t :
        p \in PosCandidates, n \in 0..MaxRun, t \in SeqsUpTo(PosCandidates, MaxTail) }

OctreeInputs ==
    { [first_line |-> "ply", props |-> GeomProps, vertex_count |-> Len(ps),
       points |-> [i \in 1..Len(ps) |-> Vertex(GeomProps, ps[i], <<10, 10, 10>>)],
       atlas_size |-> 16, atlas_layers |-> 2, max_octree_depth |-> d] :
        ps \in OctreePointLists, d \in 0..MaxDepth }

AtlasInputs ==
    { [first_line |-> "ply", props |-> GeomProps, vertex_count |-> Len(ss),
       points |-> [i \in 1..Len(ss) |-> Vertex(GeomProps, <<0, 0, 0>>, ss[i])],
       atlas_size |-> a, atlas_layers |-> l, max_octree_depth |-> MaxDepth] :
        ss \in SeqsUpTo(ScaleCandidates, MaxAtlasPoints),
        a \in AtlasSizes, l \in 1..MaxLayers }

\* headers: wrong magic, colour keys that make the conversion raise, no
\* property at all, fewer records than declared
HeaderInputs ==
    { [first_line |-> m, props |-> pr, vertex_count |-> Len(ps) + missing,
       points |-> [i \in 1..Len(ps) |-> Vertex(pr, ps[i], <<10, 10, 10>>)],
       atlas_size |-> 16, atlas_layers |-> 1, max_octree_depth |-> MaxDepth] :
        m \in {"ply", "obj"}, pr \in HeaderProps,
        ps \in SeqsUpTo(PosCandidates, MaxHeaderPoints), missing \in {0, 1} }

\* a full leaf of small splats at one corner, then points that differ in
\* position and in size
MixedInputs ==
    { [first_line |-> "ply", props |-> GeomProps,
       vertex_count |-> LeafCapacity + Len(t),
       points |-> Repeat(Vertex(GeomProps, <<0, 0, 0>>, <<10, 10, 10>>), LeafCapacity)
                  \o [i \in 1..Len(t) |-> Vertex(GeomProps, t[i][1], t[i][2])],
       atlas_size |-> 100, atlas_layers |-> 2, max_octree_depth |-> MaxDepth] :
        t \in SeqsUpTo(PosCandidates \X {<<10, 10, 10>>, <<40, 30, 20>>},
                       MaxMixedPoints) }

Inputs == OctreeInputs \cup AtlasInputs \cup HeaderInputs \cup MixedInputs

NoOutput == [dir |-> FALSE, atlas |-> <<>>, octree |-> <<>>, splat |-> <<>>,
             metadata |-> <<>>]

\* main: the generator is constructed and configured from the command line
Init ==
    \E inp \in Inputs :
        /\ file = [first_line |-> inp.first_line, props |-> inp.props,
                   vertex_count |-> inp.vertex_count, points |-> inp.points]
        /\ cfg = [atlas_size |-> inp.atlas_size, atlas_layers |-> inp.atlas_layers,
                  max_octree_depth |-> inp.max_octree_depth]
        /\ splats = <<>>
        /\ pc = "start"
        /\ error = "none"
        /\ atlases = <<>>
        /\ octree_root = None
        /\ octree = None
        /\ out = NoOutput

Next ==
    \/ LoadPly
    \/ ExportBegin
    \/ ExportAtlases
    \/ ExportOctree
    \/ ExportSplats
    \/ ExportMetadata

Spec == Init /\ [][Next]_vars

----------------------------------------------------------------------------
(* Properties *)

\* the exceptions load_ply_advanced can end with
LoadErrors == {"ValueError", "struct.error"}

NoFileWritten ==
    out.atlas = <<>> /\ out.octree = <<>> /\ out.splat = <<>> /\ out.metadata = <<>>

Packed(splat) == DOMAIN splat.atlas # {}

\* C1: in the flattened array returned by build_octree_index every leaf has
\* splat_count <= 8 and exactly 8 index slots, zero beyond splat_count, and
\* every one of the 8 child slots of an internal node is -1 or an index
\* into the same array.
C1_FlatArrayShape ==
    Truthy(octree) =>
        \A n \in 1..Len(octree.list) :
            LET node == octree.list[n]
            IN  IF node.type = "leaf"
                THEN /\ node.splat_count <= 8
                     /\ node.splat_count >= 0
                     /\ Len(node.splat_indices) = 8
                     /\ \A k \in 1..Len(node.splat_indices) :
                            k > node.splat_count => node.splat_indices[k] = 0
                ELSE /\ Len(node.child_offsets) = 8
                     /\ \A k \in 1..Len(node.child_offsets) :
                            \/ node.child_offsets[k] = -1
                            \/ /\ node.child_offsets[k] >= 0
                               /\ node.child_offsets[k] < Len(octree.list)

\* an array with an internal node, a padded leaf and a leaf cut at eight
\* from a longer candidate list
C1_Witness ==
    /\ Truthy(octree)
    /\ Len(splats) > 8
    /\ \E n \in 1..Len(octree.list) : octree.list[n].type = "internal"
    /\ \E n \in 1..Len(octree.list) :
          octree.list[n].type = "leaf" /\ octree.list[n].splat_count < 8
    /\ \E n \in 1..Len(octree.list) :
          /\ octree.list[n].type = "leaf"
          /\ octree.list[n].splat_count = 8
          /\ Cardinality({i \in 1..Len(splats) :
                 \A a \in 1..3 :
                    /\ splats[i].pos[a] * Unit >= octree.list[n].bounds[a]
                    /\ splats[i].pos[a] * Unit <= octree.list[n].bounds[a + 3]}) > 8

\* C2: every packed splat has 0 <= u, 0 <= v, u + size <= 1, v + size <= 1
\* and 0 <= layer < atlas_layers; in pixels x + tile <= atlas_size and
\* y + tile <= atlas_size.
C2_PackedInsideAtlas ==
    \A i \in 1..Len(splats) :
        Packed(splats[i]) =>
            LET u == splats[i].atlas.atlas_u
                v == splats[i].atlas.atlas_v
                sz == splats[i].atlas.atlas_size
            IN  /\ u[2] = cfg.atlas_size /\ v[2] = cfg.atlas_size
                /\ sz[2] = cfg.atlas_size
                /\ u[2] > 0
                /\ u[1] >= 0 /\ v[1] >= 0
                /\ u[1] + sz[1] <= u[2]
                /\ v[1] + sz[1] <= v[2]
                /\ splats[i].atlas.atlas_layer >= 0
                /\ splats[i].atlas.atlas_layer < cfg.atlas_layers

\* a splat packed in the last cell of a layer, touching both far edges
C2_Witness ==
    \E i \in 1..Len(splats) :
        /\ Packed(splats[i])
        /\ splats[i].atlas.atlas_u[1] > 0
        /\ splats[i].atlas.atlas_v[1] > 0
        /\ splats[i].atlas.atlas_u[1] + splats[i].atlas.atlas_size[1] = cfg.atlas_size
        /\ splats[i].atlas.atlas_v[1] + splats[i].atlas.atlas_size[1] = cfg.atlas_size

C4_BadMagicNoOutput ==
    file.first_line # "ply" =>
        /\ pc \in {"start", "error"}
        /\ pc = "error" => error = "ValueError"
        /\ splats = <<>>
        /\ ~out.dir
        /\ NoFileWritten

\* the run has failed on a file whose records would all convert
C4_Witness ==
    /\ pc = "error"
    /\ file.first_line # "ply"
    /\ file.vertex_count > 0
    /\ Len(file.points) = file.vertex_count
    /\ \A i \in 1..Len(file.points) : ~ConversionRaises(file.points[i])

\* the record the loader decodes for the i-th declared point
VertexDataAt(i) == IF file.props = {} THEN EmptyDict ELSE file.points[i]

\* the declared points whose conversion raises
FailedPoints ==
    {i \in 1..file.vertex_count : ConversionRaises(VertexDataAt(i))}

\* the k-th, in file order, of the declared points whose conversion
\* does not raise
ConvertedPoint(k) ==
    LET ok == (1..file.vertex_count) \ FailedPoints
    IN  CHOOSE i \in ok : Cardinality({j \in ok : j < i}) = k - 1

\* the file holds a record for every declared point
FileComplete == file.props = {} \/ Len(file.points) >= file.vertex_count

\* C5: when export_assets completes on a non-empty splat list, the node
\* count of the octree.idx header equals the number of node records written
\* and metadata.json octree_nodes; the splat count of the scene.splat
\* header equals the number of splat records written and metadata.json
\* splat_count, which is the number of splats that survived ingestion; and
\* exactly atlas_layers atlas files are written, each of
\* atlas_size * atlas_size * 4 bytes.
C5_DeclaredCountsAgree ==
    (pc = "done" /\ splats # <<>>) =>
        /\ Len(out.octree) = 1
        /\ out.octree[1].node_count = Len(out.octree[1].nodes)
        /\ out.octree[1].node_count = out.metadata[1].octree_nodes
        /\ out.octree[1].node_count >= 1
        /\ Len(out.splat) = 1
        /\ out.splat[1].count = Len(out.splat[1].records)
        /\ out.splat[1].count = out.metadata[1].splat_count
        /\ out.metadata[1].splat_count = file.vertex_count - Cardinality(FailedPoints)
        /\ Len(out.atlas) = cfg.atlas_layers
        /\ \A l \in 1..Len(out.atlas) :
              out.atlas[l].bytes = cfg.atlas_size * cfg.atlas_size * 4

\* a completed export of more splats than nodes, with more than one node
C5_Witness ==
    /\ pc = "done"
    /\ Len(splats) > 8
    /\ Len(out.octree) = 1
    /\ out.octree[1].node_count > 1
    /\ out.octree[1].node_count < Len(splats)
    /\ Len(out.atlas) > 1

\* C6 as stated: scene.splat is the 4-byte count, the 4-byte magic and one
\* 68-byte record for every splat, 8 + 68 * splat_count bytes in all.
C6_AsStated ==
    pc = "done" =>
        /\ \A i \in 1..Len(out.splat[1].records) : out.splat[1].records[i].bytes = 68
        /\ out.splat[1].bytes = 8 + 68 * out.splat[1].count

\* C6 amended: scene.splat is the 4-byte count, the 4-byte magic 0x53504C54
\* and one 80-byte record for every splat, made of 12 bytes position + 4
\* bytes pad, 24 bytes covariance + 8 bytes pad, 16 bytes colour and alpha
\* and 16 bytes atlas u/v/size/layer: 8 + 80 * splat_count bytes in all.
C6_RecordIs80Bytes ==
    pc = "done" =>
        /\ out.splat[1].magic = 1397771348
        /\ out.splat[1].count = Len(splats)
        /\ Len(out.splat[1].records) = Len(splats)
        /\ \A i \in 1..Len(out.splat[1].records) :
              out.splat[1].records[i].bytes = (12 + 4) + (24 + 8) + 16 + 16
        /\ out.splat[1].bytes = 8 + 80 * out.splat[1].count

\* a scene.splat of several records
C6_Witness ==
    pc = "done" /\ out.splat[1].count > 1

\* C7: generate_texture_atlas never raises, always returns atlas_layers
\* layers, and a splat that was not placed exports as layer 0,
\* u = v = size = 0.
C7_AtlasNeverRaises ==
    /\ pc = "error" => error \in LoadErrors
    /\ pc \in {"atlas", "octree", "splat", "metadata", "done"} =>
          Len(atlases) = cfg.atlas_layers
    /\ pc = "done" =>
          \A i \in 1..Len(splats) :
              ~Packed(splats[i]) =>
                  /\ out.splat[1].records[i].atlas_layer = 0
                  /\ out.splat[1].records[i].atlas_u[1] = 0
                  /\ out.splat[1].records[i].atlas_v[1] = 0
                  /\ out.splat[1].records[i].atlas_size[1] = 0

\* C8: the conversion failure of a point drops that point and the load goes
\* on: the run ends in an error before export_assets only for a wrong first
\* line or a file shorter than declared; after the load the splat list holds, in file
\* order, the conversions of the points that converted, and its length is
\* the declared count minus the number of failed conversions.
C8_FailedPointsDropped ==
    /\ (pc = "error" /\ ~out.dir) =>
          (file.first_line # "ply" \/ ~FileComplete)
    /\ pc = "loaded" =>
          /\ Len(splats) = file.vertex_count - Cardinality(FailedPoints)
          /\ \A k \in 1..Len(splats) :
                splats[k] = ConvertVertexToSplat(VertexDataAt(ConvertedPoint(k)))
    /\ pc \in {"atlas", "octree", "splat", "metadata", "done"} =>
          Len(splats) = file.vertex_count - Cardinality(FailedPoints)

\* a load that ended normally although conversions failed
C8_Witness ==
    /\ pc = "loaded"
    /\ Cardinality(FailedPoints) > 1
    /\ Len(splats) = file.vertex_count - Cardinality(FailedPoints)

\* the closed box of octant o of the box from lo to hi: on each axis the
\* lower half when the bit of the axis is clear, the upper half when set
C9_OctantBox(o, lo, hi) ==
    LET set(a) == (o \div (2 ^ (a - 1))) % 2 = 1
        mid(a) == (lo[a] + hi[a]) \div 2
    IN  [lo |-> [a \in 1..3 |-> IF set(a) THEN mid(a) ELSE lo[a]],
         hi |-> [a \in 1..3 |-> IF set(a) THEN hi[a] ELSE mid(a)]]

\* splat idx (0-based) lies in the closed box from lo to hi
C9_Inside(idx, lo, hi) ==
    \A a \in 1..3 :
        /\ splats[idx + 1].pos[a] * Unit >= lo[a]
        /\ splats[idx + 1].pos[a] * Unit <= hi[a]

RECURSIVE C9_NodeAsSpecified(_, _, _, _, _)
C9_NodeAsSpecified(node, cand, lo, hi, depth) ==
    /\ node # None
    /\ node.is_leaf = (depth >= cfg.max_octree_depth \/ Len(cand) <= 8)
    /\ node.bounds = <<lo[1], lo[2], lo[3], hi[1], hi[2], hi[3]>>
    /\ IF node.is_leaf
       THEN node.splat_indices = [k \in 1..Min2(8, Len(cand)) |-> cand[k]]
       ELSE /\ Len(node.children) = 8
            /\ \A o \in 0..7 :
                  LET box == C9_OctantBox(o, lo, hi)
                      sub == SelectSeq(cand, LAMBDA idx : C9_Inside(idx, box.lo, box.hi))
                  IN  /\ (node.children[o + 1] = None) <=> (sub = <<>>)
                      /\ sub # <<>> =>
                            C9_NodeAsSpecified(node.children[o + 1], sub,
                                             box.lo, box.hi, depth + 1)

\* C9: a node built by _build_octree_recursive is a leaf exactly when
\* depth >= max_depth or its candidate list has at most 8 members; a leaf
\* stores the first 8 candidates in candidate order; an internal node has 8
\* child slots, a slot is empty exactly when no candidate lies in that
\* octant, and every other octant holds the node built from the candidates
\* in it at depth + 1.
C9_LeafOrSplit ==
    octree_root # None =>
        C9_NodeAsSpecified(octree_root, [i \in 1..Len(splats) |-> i - 1],
                         SubSeq(octree_root.bounds, 1, 3),
                         SubSeq(octree_root.bounds, 4, 6), 0)

\* a root with an empty octant and an internal child, below which a leaf
\* at max depth keeps 8 of more than 8 candidates
C9_Witness ==
    /\ octree_root # None
    /\ ~octree_root.is_leaf
    /\ \E o \in 1..8 : octree_root.children[o] = None
    /\ \E o \in 1..8 :
          /\ octree_root.children[o] # None
          /\ ~octree_root.children[o].is_leaf
          /\ \E q \in 1..8 :
                LET leaf == octree_root.children[o].children[q]
                IN  /\ leaf # None
                    /\ leaf.is_leaf
                    /\ Len(leaf.splat_indices) = 8
                    /\ Cardinality({i \in 0..(Len(splats) - 1) :
                           C9_Inside(i, SubSeq(leaf.bounds, 1, 3),
                                     SubSeq(leaf.bounds, 4, 6))}) > 8

\* the non-empty child slots of an internal node, in octant order
C10_Children(node) == SelectSeq(node.child_offsets, LAMBDA c : c # -1)

\* the number of nodes of the subtree whose root is at index j (0-based),
\* following child slots that point forward
RECURSIVE C10_SubtreeSize(_, _)
RECURSIVE C10_SizeOfAll(_, _, _, _)
C10_SizeOfAll(array, j, cs, k) ==
    IF k > Len(cs) THEN 0
    ELSE (IF cs[k] > j /\ cs[k] < Len(array)
          THEN C10_SubtreeSize(array, cs[k]) ELSE 0)
         + C10_SizeOfAll(array, j, cs, k + 1)

C10_SubtreeSize(array, j) ==
    IF array[j + 1].type = "leaf" THEN 1
    ELSE 1 + C10_SizeOfAll(array, j, C10_Children(array[j + 1]), 1)

\* the node at index j (0-based) of the array is the tree node, and so on
\* through its child slots
RECURSIVE C10_AppendedAt(_, _, _)
C10_AppendedAt(array, node, j) ==
    /\ j >= 0 /\ j < Len(array)
    /\ array[j + 1].bounds = node.bounds
    /\ (array[j + 1].type = "leaf") = node.is_leaf
    /\ IF node.is_leaf
       THEN SubSeq(array[j + 1].splat_indices, 1, array[j + 1].splat_count)
                = node.splat_indices
       ELSE \A o \in 1..8 :
               IF node.children[o] = None
               THEN array[j + 1].child_offsets[o] = -1
               ELSE /\ array[j + 1].child_offsets[o] > j
                    /\ C10_AppendedAt(array, node.children[o],
                                      array[j + 1].child_offsets[o])

\* C10: the root is at index 0; every child slot of an internal node holds
\* the index at which that child was appended, greater than the node's own
\* index; children are emitted in octant order, so the first child follows
\* its parent, each next child follows the subtree of the one before and
\* every subtree is a contiguous range; every node but the root is
\* referenced by exactly one child slot, the root by none.
C10_PreOrder ==
    Truthy(octree) =>
        LET array == octree.list
            n == Len(octree.list)
        IN  /\ C10_AppendedAt(array, octree_root, 0)
            /\ C10_SubtreeSize(array, 0) = n
            /\ \A j \in 0..(n - 1) :
                  array[j + 1].type = "internal" =>
                      LET cs == C10_Children(array[j + 1])
                      IN  /\ \A k \in 1..Len(cs) : cs[k] > j /\ cs[k] < n
                          /\ cs # <<>>
                          /\ cs[1] = j + 1
                          /\ \A k \in 1..(Len(cs) - 1) :
                                cs[k + 1] = cs[k] + C10_SubtreeSize(array, cs[k])
            /\ \A t \in 0..(n - 1) :
                  Cardinality({p \in (1..n) \X (1..8) :
                      /\ array[p[1]].type = "internal"
                      /\ array[p[1]].child_offsets[p[2]] = t})
                  = IF t = 0 THEN 0 ELSE 1

\* an array in which an internal node below the root is followed by its
\* subtree and then by a later child of the root
C10_Witness ==
    /\ Truthy(octree)
    /\ octree.list[1].type = "internal"
    /\ \E o \in 1..7 :
          LET c == octree.list[1].child_offsets[o]
          IN  /\ c # -1
              /\ octree.list[c + 1].type = "internal"
              /\ \E q \in (o + 1)..8 :
                    octree.list[1].child_offsets[q] > c + 1

\* the axes on which splat idx (0-based) lies on the split plane of the box
\* from lo to hi
C11_PlanesThrough(idx, lo, hi) ==
    {a \in 1..3 : 2 * splats[idx + 1].pos[a] * Unit = lo[a] + hi[a]}

\* the members of a sequence
C11_Members(seq) == {seq[k] : k \in 1..Len(seq)}

\* for each octant 0..7 of the box from lo to hi, the members of cand the
\* split gives to it
C11_Given(cand, lo, hi) ==
    LET center == [a \in 1..3 |-> (lo[a] + hi[a]) \div 2]
    IN  [o \in 0..7 |->
            OctantSplats(splats, cand, OctMin(o, lo, center), OctMax(o, hi, center))]

RECURSIVE C11_SplitInclusive(_, _)
C11_SplitInclusive(node, cand) ==
    node.is_leaf \/
    LET lo == SubSeq(node.bounds, 1, 3)
        hi == SubSeq(node.bounds, 4, 6)
        given == C11_Given(cand, lo, hi)
        sets == [o \in 0..7 |-> C11_Members(given[o])]
        box == [o \in 0..7 |-> C9_OctantBox(o, lo, hi)]
    IN  /\ \A idx \in C11_Members(cand) :
              LET octants == {o \in 0..7 : idx \in sets[o]}
                  planes == C11_PlanesThrough(idx, lo, hi)
              IN  /\ \A o \in 0..7 :
                        (o \in octants) <=> C9_Inside(idx, box[o].lo, box[o].hi)
                  /\ Cardinality(octants) = 2 ^ Cardinality(planes)
                  /\ planes # {} => Cardinality(octants) \in {2, 4, 8}
                  /\ \A o \in octants : node.children[o + 1] # None
        /\ \A o \in 0..7 :
              node.children[o + 1] # None =>
                  C11_SplitInclusive(node.children[o + 1], given[o])

\* C11: in the tree just built, when an internal node is split, a splat is
\* given to an octant exactly when its position lies within the octant's
\* box, both bounds inclusive on every axis; a splat on split planes of the node is given to
\* every octant touching them: 2, 4 or 8 octants for 1, 2 or 3 planes.
C11_BoundaryInEveryOctant ==
    (pc = "splat" /\ octree_root # None) =>
        C11_SplitInclusive(octree_root, [i \in 1..Len(splats) |-> i - 1])

\* the leaves of the array that hold index idx among their first
\* splat_count slots
C11_LeavesHolding(idx) ==
    {n \in 1..Len(octree.list) :
        /\ octree.list[n].type = "leaf"
        /\ \E k \in 1..octree.list[n].splat_count :
              octree.list[n].splat_indices[k] = idx}

\* a root split that gives one splat to 2 octants and another to 4, with an
\* index found in more than one leaf of the flattened array
C11_Witness ==
    /\ Truthy(octree)
    /\ octree_root # None
    /\ ~octree_root.is_leaf
    /\ \E i \in 0..(Len(splats) - 1) :
          /\ Cardinality(C11_PlanesThrough(i, SubSeq(octree_root.bounds, 1, 3),
                                           SubSeq(octree_root.bounds, 4, 6))) = 2
          /\ Cardinality(C11_LeavesHolding(i)) = 4
    /\ \E j \in 0..(Len(splats) - 1) :
          Cardinality(C11_PlanesThrough(j, SubSeq(octree_root.bounds, 1, 3),
                                        SubSeq(octree_root.bounds, 4, 6))) = 0

\* the depth of the deepest node below node, node itself being at depth
RECURSIVE C12_Deepest(_, _)
C12_Deepest(node, depth) ==
    IF node.is_leaf
    THEN depth
    ELSE SetMax({depth} \cup
                {C12_Deepest(node.children[o], depth + 1) :
                    o \in {o \in 1..8 : node.children[o] # None}})

\* the number of leaves of the flattened array
C12_Leaves ==
    Cardinality({n \in 1..Len(octree.list) : octree.list[n].type = "leaf"})

\* C12 as stated: the number of leaves of the flattened array never exceeds
\* min(total_splats, 8^max_depth).
C12_AsStated ==
    Truthy(octree) =>
        C12_Leaves <= Min2(Len(splats), 8 ^ cfg.max_octree_depth)

\* C12, amended: for a non-empty splat list and max_depth >= 0 the build
\* has ended with a tree once the octree step is over, no node lies deeper
\* than max_depth, the array has at most 8^max_depth leaves and at most
\* (8^(max_depth+1) - 1) / 7 nodes; the number of splats does not bound the
\* number of leaves.
C12_DepthBoundsTree ==
    (pc \in {"splat", "metadata", "done"} /\ splats # <<>>) =>
        /\ Truthy(octree)
        /\ octree_root # None
        /\ C12_Deepest(octree_root, 0) <= cfg.max_octree_depth
        /\ C12_Leaves <= 8 ^ cfg.max_octree_depth
        /\ 7 * Len(octree.list) <= 8 ^ (cfg.max_octree_depth + 1) - 1

\* nine splats at one position, split down to max_depth 2: 64 leaves
C12_Witness ==
    /\ Truthy(octree)
    /\ octree_root # None
    /\ cfg.max_octree_depth = 2
    /\ C12_Deepest(octree_root, 0) = 2
    /\ C12_Leaves = 64
    /\ Len(splats) < 64

\* the number of tiles rendered into the first l layers
RECURSIVE C13_TilesUpTo(_)
C13_TilesUpTo(l) ==
    IF l = 0 THEN 0 ELSE Len(atlases[l].tiles) + C13_TilesUpTo(l - 1)

\* every splat's tile fits the atlas
C13_TilesFit(S) ==
    \A i \in 1..Len(S) : SplatSize(S[i]) <= cfg.atlas_size

\* C13: with atlas_layers >= 1 and atlas_size at least the tile size of the
\* splats, the grid row is wrapped at the grid width, so
\* row * tile + tile <= atlas_size; no splat is skipped: packing ends
\* without error, every splat has an atlas assignment and the packed count
\* is the number of splats.
C13_NoSplatSkipped ==
    /\ (pc = "loaded" /\ cfg.atlas_layers >= 1 /\ C13_TilesFit(splats)) =>
          LET r == GenerateTextureAtlas(splats, cfg)
          IN  /\ r.error = "none"
              /\ r.packed_count = Len(splats)
              /\ \A i \in 1..Len(splats) : Packed(r.splats[i])
    /\ pc \in {"atlas", "octree", "splat", "metadata", "done"} =>
          /\ C13_TilesFit(splats)
          /\ \A i \in 1..Len(splats) :
                /\ Packed(splats[i])
                /\ splats[i].atlas.atlas_v[1] + SplatSize(splats[i])
                       <= cfg.atlas_size
          /\ C13_TilesUpTo(Len(atlases)) = Len(splats)

\* three or more splats packed, two of them on the same cell of the same
\* layer
C13_Witness ==
    /\ pc = "atlas"
    /\ Len(splats) >= 3
    /\ C13_TilesUpTo(Len(atlases)) = Len(splats)
    /\ \E i, j \in 1..Len(splats) :
          /\ i # j
          /\ Packed(splats[i]) /\ Packed(splats[j])
          /\ splats[i].atlas = splats[j].atlas

\* some leaf below node was made from more than 8 candidates
RECURSIVE C14_Truncated(_, _)
C14_Truncated(node, cand) ==
    IF node.is_leaf
    THEN Len(cand) > LeafCapacity
    ELSE LET lo == SubSeq(node.bounds, 1, 3)
             hi == SubSeq(node.bounds, 4, 6)
             center == [a \in 1..3 |-> (lo[a] + hi[a]) \div 2]
         IN  \E o \in 0..7 :
                /\ node.children[o + 1] # None
                /\ C14_Truncated(node.children[o + 1],
                       OctantSplats(splats, cand, OctMin(o, lo, center),
                                    OctMax(o, hi, center)))

\* C14: for a non-empty splat list, once the octree is built, if no leaf
\* was made from more than 8 candidates, every splat index 0..n-1 is among the first splat_count
\* slots of at least one leaf of the flattened array.
C14_NoLossWithoutTruncation ==
    (pc = "splat" /\ Truthy(octree) /\ octree_root # None
        /\ ~C14_Truncated(octree_root, [i \in 1..Len(splats) |-> i - 1])) =>
        \A idx \in 0..(Len(splats) - 1) : C11_LeavesHolding(idx) # {}

\* more than 8 splats, split twice, no leaf truncated
C14_Witness ==
    /\ Truthy(octree)
    /\ octree_root # None
    /\ Len(splats) > LeafCapacity
    /\ C12_Deepest(octree_root, 0) = 2
    /\ ~C14_Truncated(octree_root, [i \in 1..Len(splats) |-> i - 1])
    /\ \A idx \in 0..(Len(splats) - 1) : C11_LeavesHolding(idx) # {}

\* the splat made from the k-th usable point of the file, k counted from 1
C15_FromFile(k) == ConvertVertexToSplat(VertexDataAt(ConvertedPoint(k)))

\* C15: when packing returns, the splat list is in the order loaded, and in
\* the exported files every index k among the first splat_count slots of a leaf
\* of octree.idx is below the splat count of scene.splat, record k of
\* scene.splat is the splat that stood at index k when the octree was built,
\* and its position lies within the leaf's bounds, both ends inclusive.
C15_LeafIndicesAddressRecords ==
    /\ pc = "atlas" =>
          \A k \in 1..Len(splats) :
              /\ splats[k].pos = C15_FromFile(k).pos
              /\ splats[k].scale = C15_FromFile(k).scale
    /\ (pc = "done" /\ out.octree # <<>>) =>
          \A n \in 1..Len(out.octree[1].nodes) :
              LET node == out.octree[1].nodes[n]
              IN  node.flag = 1 =>
                    \A s \in 1..node.count :
                        LET k == node.slots[s]
                        IN  /\ k >= 0
                            /\ k < out.splat[1].count
                            /\ k < Len(out.splat[1].records)
                            /\ splats[k + 1].pos = C15_FromFile(k + 1).pos
                            /\ splats[k + 1].scale = C15_FromFile(k + 1).scale
                            /\ out.splat[1].records[k + 1].pos
                                   = C15_FromFile(k + 1).pos
                            /\ out.splat[1].records[k + 1].atlas_size
                                   = Frac(SplatSize(C15_FromFile(k + 1)),
                                          cfg.atlas_size)
                            /\ \A a \in 1..3 :
                                  /\ C15_FromFile(k + 1).pos[a] * Unit
                                         >= node.bounds[a]
                                  /\ C15_FromFile(k + 1).pos[a] * Unit
                                         <= node.bounds[a + 3]

\* both files written, the tree split, and a splat list that the sort by
\* size would reorder: a later splat larger than an earlier one at another
\* position
C15_Witness ==
    /\ pc = "done"
    /\ out.octree # <<>>
    /\ out.splat # <<>>
    /\ \E n \in 1..Len(out.octree[1].nodes) : out.octree[1].nodes[n].flag = 0
    /\ \E n \in 1..Len(out.octree[1].nodes) :
          /\ out.octree[1].nodes[n].flag = 1
          /\ out.octree[1].nodes[n].count > 0
    /\ \E i, j \in 1..Len(splats) :
          /\ i < j
          /\ SplatSize(splats[i]) < SplatSize(splats[j])
          /\ splats[i].pos # splats[j].pos
====
